---- MODULE Spec2Model ----
(***************************************************************************)
(* The publish pipeline of note-site.                                      *)
(*                                                                         *)
(*   Spec          scripts/auto-sync-deploy.sh, the orchestrator:          *)
(*                 sync -> build -> diff -> add -> commit -> push, run     *)
(*                 after run, with the notes edited between runs.          *)
(*   AdapterSpec   scripts/run-bear-export.sh, the exporter adapter and    *)
(*                 its asset relay (rsync of BearImages).                  *)
(*   ListenerSpec  the Bear callback server (http.createServer handler).   *)
(*                                                                         *)
(* External programs (npm, git, python3, rsync, the file system, the       *)
(* clock) are the environment: their exit status and the time are chosen   *)
(* nondeterministically, their effect on the files is what the tool does.  *)
(***************************************************************************)
EXTENDS Integers, Sequences, FiniteSets, TLC

(* ---------------------------------------------------------------------- *)
(* Bounds                                                                 *)
(* ---------------------------------------------------------------------- *)
\* runs of auto-sync-deploy.sh in one behaviour
MaxRuns == 2
\* distinct contents a file can have (0 stands for "no such file")
MaxBytes == 2
\* requests the capture listener receives
MaxReqs == 2
\* data chunks the requests carry, all together
MaxChunks == 3

Bytes == 0..MaxBytes

\* readings of date +"%Y-%m-%d %H:%M:%S"
Dates == {"2026-01-31 23:59:59", "2026-02-01 00:00:00"}

\* exit statuses of a failing external command: 1, and git's 128 for "fatal:"
ErrCodes == {1, 128}
ExitCodes == {0} \cup ErrCodes

(* ---------------------------------------------------------------------- *)
(* The orchestrator: scripts/auto-sync-deploy.sh                          *)
(* ---------------------------------------------------------------------- *)
\* files of the build output location docs/
DocFiles == {"index.html", "page.html"}
Trees == [DocFiles -> Bytes]
EmptyTree == [f \in DocFiles |-> 0]

LOG_PREFIX == "[auto-sync]"

VARIABLES
    pc,        \* position of the script: "idle" before the first run, a stage, or "exited"
    exit,      \* exit status of the last finished run
    run,       \* number of runs started
    bear,      \* the site the notes tagged for publishing render to now
    content,   \* src/content/notes as the last export left it
    W,         \* docs/ in the working tree
    I,         \* docs/ in the git index
    H,         \* docs/ in the HEAD commit
    nCommits,  \* number of commits created on the branch
    lastMsg,   \* message of the newest of them
    nPushed,   \* how many of them the remote has
    COMMIT_MSG,\* the script's variable of that name
    calls,     \* external commands invoked in this run, with their exit status
    log,       \* lines echoed in this run, with their stream
    startCommits, \* nCommits when this run started
    edited,    \* the notes were edited since the last run ended
    changed,   \* the notes were edited between the previous run and this one
    prev       \* exit status and last call of the previous run

ovars == <<pc, exit, run, bear, content, W, I, H, nCommits, lastMsg, nPushed, COMMIT_MSG,
           calls, log, startCommits, edited, changed, prev>>

\* the checkout the first run finds: docs/ never built and never committed, or
\* a site committed by hand with its index page only
InitTrees == {EmptyTree, [f \in DocFiles |-> IF f = "index.html" THEN 1 ELSE 0]}

NoCall == [op |-> "none", st |-> 0]
NoPrev == [exit |-> -1, last |-> NoCall]

\* what an interrupted writer can leave behind: each file old or new
Partial(old, new) == {t \in Trees : \A f \in DocFiles : t[f] \in {old[f], new[f]}}

\* echo "$LOG_PREFIX text", and the same with >&2
Out(text) == [stream |-> "stdout", text |-> <<LOG_PREFIX, text>>]
Err(text) == [stream |-> "stderr", text |-> <<LOG_PREFIX, text>>]
Call(op, st) == [op |-> op, st |-> st]

\* the end of the process: `exit n`, set -e, or the end of the script
Terminate(code) ==
    /\ pc' = "exited"
    /\ exit' = code

OInit ==
    /\ pc = "idle"
    /\ exit = 0
    /\ run = 0
    /\ \E t \in InitTrees : bear = t /\ content = t /\ W = t /\ I = t /\ H = t
    /\ nCommits = 0
    /\ lastMsg = <<>>
    /\ nPushed = 0
    /\ COMMIT_MSG = <<>>
    /\ calls = <<>>
    /\ log = <<>>
    /\ startCommits = 0
    /\ edited = FALSE
    /\ changed = FALSE
    /\ prev = NoPrev

\* the author edits, tags or untags notes in Bear between two runs
EditNotes ==
    /\ pc \in {"idle", "exited"}
    /\ run < MaxRuns
    /\ ~edited
    /\ \E t \in Trees \ {bear} : bear' = t
    /\ edited' = TRUE
    /\ UNCHANGED <<pc, exit, run, content, W, I, H, nCommits, lastMsg, nPushed,
                   COMMIT_MSG, calls, log, startCommits, changed, prev>>

\* lines 1-9: the script starts
Start ==
    /\ pc \in {"idle", "exited"}
    /\ run < MaxRuns
    /\ run' = run + 1
    /\ pc' = "sync"
    /\ prev' = IF run = 0 THEN NoPrev ELSE [exit |-> exit, last |-> calls[Len(calls)]]
    /\ calls' = <<>>
    /\ log' = <<Out("Starting")>>
    /\ startCommits' = nCommits
    /\ COMMIT_MSG' = <<>>
    /\ changed' = edited
    /\ edited' = FALSE
    /\ UNCHANGED <<exit, bear, content, W, I, H, nCommits, lastMsg, nPushed>>

\* a variant of SyncFailed without line 16: the script goes on to the build
SyncFailedContinues ==
    /\ log' = Append(log, Err("sync-bear FAILED"))
    /\ pc' = "build"
    /\ UNCHANGED exit

\* lines 14-16: the else branch of the sync stage
SyncFailed ==
    /\ log' = Append(log, Err("sync-bear FAILED"))
    /\ Terminate(1)

\* lines 11-17: npm run sync-bear
SyncStage ==
    /\ pc = "sync"
    /\ \E st \in ExitCodes :
         /\ calls' = Append(calls, Call("sync", st))
         /\ IF st = 0
            THEN /\ content' = bear
                 /\ log' = Append(log, Out("sync-bear ok"))
                 /\ pc' = "build"
                 /\ UNCHANGED exit
            ELSE /\ content' \in Partial(content, bear)
                 /\ SyncFailed
    /\ UNCHANGED <<run, bear, W, I, H, nCommits, lastMsg, nPushed, COMMIT_MSG,
                   startCommits, edited, changed, prev>>

\* what `npm run build` (astro build into ../docs) makes of the content
Build(c) == c

\* a variant of BuildFailed without line 24: the script goes on to the diff
BuildFailedContinues ==
    /\ log' = Append(log, Err("build FAILED"))
    /\ pc' = "diff"
    /\ UNCHANGED exit

\* lines 22-24: the else branch of the build stage
BuildFailed ==
    /\ log' = Append(log, Err("build FAILED"))
    /\ Terminate(1)

\* lines 19-27: npm run build, then cd to the repository
BuildStage ==
    /\ pc = "build"
    /\ \E st \in ExitCodes :
         /\ calls' = Append(calls, Call("build", st))
         /\ IF st = 0
            THEN /\ W' = Build(content)
                 /\ log' = Append(log, Out("build ok"))
                 /\ pc' = "diff"
                 /\ UNCHANGED exit
            ELSE /\ W' \in Partial(W, Build(content))
                 /\ BuildFailed
    /\ UNCHANGED <<run, bear, content, I, H, nCommits, lastMsg, nPushed, COMMIT_MSG,
                   startCommits, edited, changed, prev>>

\* a variant of GitDiffQuiet that reports a difference whenever docs/ has a file
GitDiffNonEmpty(w, i) ==
    IF \E f \in DocFiles : w[f] # 0 THEN 1 ELSE 0

\* git diff --quiet -- docs: working tree against index, paths of the index only
\* (an untracked file is no difference); 1 = differences, 0 = none
GitDiffQuiet(w, i) ==
    IF \E f \in DocFiles : i[f] # 0 /\ w[f] # i[f] THEN 1 ELSE 0

\* a variant of CommitMessage without the $(date ...) substitution
CommitMessageNoDate(d) == <<"Auto update notes ", "">>

\* line 35: the fixed prefix, then date +"%Y-%m-%d %H:%M:%S" read as d
CommitMessage(d) == <<"Auto update notes ", d>>

\* lines 35-37: the script goes on to the commit
PrepareCommit ==
    /\ \E d \in Dates : COMMIT_MSG' = CommitMessage(d)
    /\ log' = Append(log, Out("committing"))
    /\ pc' = "add"
    /\ UNCHANGED exit

\* a variant of NoChanges without line 32: the script goes on to the commit
NoChangesFallsThrough ==
    /\ \E d \in Dates : COMMIT_MSG' = <<"Auto update notes ", d>>
    /\ log' = Append(log, Out("no changes in docs, nothing to commit"))
    /\ pc' = "add"
    /\ UNCHANGED exit

\* a variant of NoChanges that pushes what earlier runs left unpushed
NoChangesPushes ==
    /\ log' = Append(log, Out("no changes in docs, nothing to commit"))
    /\ pc' = "push"
    /\ UNCHANGED <<exit, COMMIT_MSG>>

\* lines 31-32: the no-op exit
NoChanges ==
    /\ log' = Append(log, Out("no changes in docs, nothing to commit"))
    /\ Terminate(0)
    /\ UNCHANGED COMMIT_MSG

\* lines 29-37: the diff check; git ends with 128 when it cannot run the diff
DiffStage ==
    /\ pc = "diff"
    /\ \E st \in {GitDiffQuiet(W, I), 128} :
         /\ calls' = Append(calls, Call("diff", st))
         /\ IF st = 0 THEN NoChanges ELSE PrepareCommit
    /\ UNCHANGED <<run, bear, content, W, I, H, nCommits, lastMsg, nPushed,
                   startCommits, edited, changed, prev>>

\* line 39: git add docs, unguarded, so set -e ends the script with git's status
AddStage ==
    /\ pc = "add"
    /\ \E st \in ExitCodes :
         /\ calls' = Append(calls, Call("add", st))
         /\ IF st = 0
            THEN /\ I' = W
                 /\ pc' = "commit"
                 /\ UNCHANGED exit
            ELSE /\ I' = I
                 /\ Terminate(st)
    /\ UNCHANGED <<run, bear, content, W, H, nCommits, lastMsg, nPushed, COMMIT_MSG, log,
                   startCommits, edited, changed, prev>>

\* exit statuses git commit can end with: never 0 when nothing is staged
GitCommitStatus(i, h) == IF i = h THEN ErrCodes ELSE ExitCodes

\* a variant of CommitFailed without line 44: the script goes on to the push
CommitFailedContinues ==
    /\ log' = Append(log, Err("git commit failed"))
    /\ pc' = "push"
    /\ UNCHANGED exit

\* lines 42-44: the else branch of the commit stage
CommitFailed ==
    /\ log' = Append(log, Err("git commit failed"))
    /\ Terminate(1)

\* lines 40-45: git commit -m "$COMMIT_MSG"
CommitStage ==
    /\ pc = "commit"
    /\ \E st \in GitCommitStatus(I, H) :
         /\ calls' = Append(calls, Call("commit", st))
         /\ IF st = 0
            THEN /\ H' = I
                 /\ nCommits' = nCommits + 1
                 /\ lastMsg' = COMMIT_MSG
                 /\ log' = Append(log, Out("commit ok"))
                 /\ pc' = "push"
                 /\ UNCHANGED exit
            ELSE /\ UNCHANGED <<H, nCommits, lastMsg>>
                 /\ CommitFailed
    /\ UNCHANGED <<run, bear, content, W, I, nPushed, COMMIT_MSG, startCommits,
                   edited, changed, prev>>

\* a variant of PushFailed that waits for a line of input instead of exiting
PushFailedWaits ==
    /\ log' = Append(log, Err("git push failed"))
    /\ pc' = "read"
    /\ UNCHANGED exit

\* lines 49-51: the else branch of the push stage
PushFailed ==
    /\ log' = Append(log, Err("git push failed"))
    /\ Terminate(1)

\* lines 47-55: git push, then "done"
PushStage ==
    /\ pc = "push"
    /\ \E st \in ExitCodes :
         /\ calls' = Append(calls, Call("push", st))
         /\ IF st = 0
            THEN /\ nPushed' = nCommits
                 /\ log' = Append(Append(log, Out("push ok")), Out("done"))
                 /\ Terminate(0)
            ELSE /\ UNCHANGED nPushed
                 /\ PushFailed
    /\ UNCHANGED <<run, bear, content, W, I, H, nCommits, lastMsg, COMMIT_MSG,
                   startCommits, edited, changed, prev>>

(* ---------------------------------------------------------------------- *)
(* The exporter adapter and its asset relay: scripts/run-bear-export.sh   *)
(* ---------------------------------------------------------------------- *)
\* files of a BearImages directory
ImgNames == {"a.png", "b.png"}
ImgTrees == [ImgNames -> Bytes]
NoFiles == [f \in ImgNames |-> 0]
\* a directory that does not exist, and one that exists with the files t
NoDir == [exists |-> FALSE, files |-> NoFiles]
Dir(t) == [exists |-> TRUE, files |-> t]
ImgDirs == {NoDir} \cup {Dir(t) : t \in ImgTrees}

\* the directories of line 10
OutDirs == {"OUT_DIR", "BACKUP_DIR", "PUBLIC_DIR"}

VARIABLES
    apc,        \* position of the script: "idle", a line, or "exited"
    aexit,      \* exit status of the last finished invocation
    arun,       \* number of invocations started
    hasScript,  \* bear_export_sync.py is a file at EXPORT_SCRIPT
    dirs,       \* which of OUT_DIR, BACKUP_DIR, PUBLIC_DIR exist
    outImages,  \* OUT_DIR/BearImages
    pubImages,  \* PUBLIC_DIR/BearImages
    acalls,     \* commands invoked in this invocation, with their exit status
    aerr,       \* lines written to stderr in this invocation
    pubBefore,  \* pubImages when this invocation started
    snap        \* dirs and pubImages when the export routine returned

avars == <<apc, aexit, arun, hasScript, dirs, outImages, pubImages, acalls, aerr,
           pubBefore, snap>>

NoSnap == [dirs |-> {}, pub |-> NoDir]

AInit ==
    /\ apc = "idle"
    /\ aexit = 0
    /\ arun = 0
    /\ hasScript \in BOOLEAN
    /\ dirs \in {{}, OutDirs}
    /\ outImages = NoDir
    /\ pubImages = NoDir
    /\ acalls = <<>>
    /\ aerr = <<>>
    /\ pubBefore = NoDir
    /\ snap = NoSnap

\* `exit n`, set -e, or the end of the script
ATerminate(code) ==
    /\ apc' = "exited"
    /\ aexit' = code

\* lines 1-8: the script starts
AStart ==
    /\ apc \in {"idle", "exited"}
    /\ arun < MaxRuns
    /\ arun' = arun + 1
    /\ apc' = "mkdirs"
    /\ acalls' = <<>>
    /\ aerr' = <<>>
    /\ pubBefore' = pubImages
    /\ snap' = NoSnap
    /\ UNCHANGED <<aexit, hasScript, dirs, outImages, pubImages>>

\* line 10: mkdir -p "$OUT_DIR" "$BACKUP_DIR" "$PUBLIC_DIR"
AMkdirs ==
    /\ apc = "mkdirs"
    /\ \E st \in {0, 1} :
         /\ acalls' = Append(acalls, Call("mkdir", st))
         /\ IF st = 0
            THEN /\ dirs' = OutDirs
                 /\ apc' = "check"
                 /\ UNCHANGED aexit
            ELSE /\ dirs' \in {d \in SUBSET OutDirs : dirs \subseteq d /\ d # OutDirs}
                 /\ ATerminate(st)
    /\ UNCHANGED <<arun, hasScript, outImages, pubImages, aerr, pubBefore, snap>>

\* a variant of ExporterMissing without line 14: the script goes on to python3
ExporterMissingContinues ==
    /\ aerr' = Append(aerr, "bear_export_sync.py not found")
    /\ apc' = "export"
    /\ UNCHANGED aexit

\* lines 13-14: the error line and the exit
ExporterMissing ==
    /\ aerr' = Append(aerr, "bear_export_sync.py not found")
    /\ ATerminate(1)

\* lines 12-15: the export routine must be a file
ACheck ==
    /\ apc = "check"
    /\ IF hasScript
       THEN /\ apc' = "export"
            /\ UNCHANGED <<aexit, aerr>>
       ELSE ExporterMissing
    /\ UNCHANGED <<arun, hasScript, dirs, outImages, pubImages, acalls, pubBefore, snap>>

\* a variant of ExportFailed without set -e: the script goes on to the relay
ExportFailedContinues(st) ==
    /\ apc' = "relay"
    /\ UNCHANGED <<aexit, snap>>

\* line 2 with line 17: set -e ends the script with python3's status
ExportFailed(st) ==
    /\ ATerminate(st)
    /\ UNCHANGED snap

\* line 17: python3 "$EXPORT_SCRIPT" --out "$OUT_DIR" --backup "$BACKUP_DIR".
\* The routine is external: under OUT_DIR it may create, rewrite or remove
\* BearImages and its files; it is not given PUBLIC_DIR.
AExport ==
    /\ apc = "export"
    /\ \E st \in ExitCodes :
         /\ acalls' = Append(acalls, Call("export", st))
         /\ outImages' \in ImgDirs
         /\ IF st = 0
            THEN /\ apc' = "relay"
                 /\ snap' = [dirs |-> dirs, pub |-> pubImages]
                 /\ UNCHANGED aexit
            ELSE ExportFailed(st)
    /\ UNCHANGED <<arun, hasScript, dirs, pubImages, aerr, pubBefore>>

\* line 20: [ -d "$OUT_DIR/BearImages" ]; without it the script ends here
ARelayTest ==
    /\ apc = "relay"
    /\ IF outImages.exists
       THEN /\ apc' = "mkimg"
            /\ UNCHANGED aexit
       ELSE ATerminate(0)
    /\ UNCHANGED <<arun, hasScript, dirs, outImages, pubImages, acalls, aerr,
                   pubBefore, snap>>

\* line 21: mkdir -p "$PUBLIC_DIR/BearImages"
AMkImg ==
    /\ apc = "mkimg"
    /\ \E st \in {0, 1} :
         /\ acalls' = Append(acalls, Call("mkdir", st))
         /\ IF st = 0
            THEN /\ pubImages' = Dir(pubImages.files)
                 /\ apc' = "rsync"
                 /\ UNCHANGED aexit
            ELSE /\ UNCHANGED pubImages
                 /\ ATerminate(st)
    /\ UNCHANGED <<arun, hasScript, dirs, outImages, aerr, pubBefore, snap>>

\* a variant of Rsync that removes what the source does not have (rsync --delete)
RsyncDelete(src, dst) == src

\* a variant of Rsync that skips the files the destination already has
\* (rsync --ignore-existing)
RsyncIgnoreExisting(src, dst) ==
    [f \in ImgNames |-> IF dst[f] # 0 THEN dst[f] ELSE src[f]]

\* rsync -r src/ dst/: every file of src is copied over dst's, the other
\* files of dst stay
Rsync(src, dst) ==
    [f \in ImgNames |-> IF src[f] # 0 THEN src[f] ELSE dst[f]]

\* line 22: rsync -r "$OUT_DIR/BearImages/" "$PUBLIC_DIR/BearImages/"
ARsync ==
    /\ apc = "rsync"
    /\ \E st \in ExitCodes :
         /\ acalls' = Append(acalls, Call("rsync", st))
         /\ IF st = 0
            THEN /\ pubImages' = Dir(Rsync(outImages.files, pubImages.files))
                 /\ ATerminate(0)
            ELSE /\ \E t \in ImgTrees :
                      /\ \A f \in ImgNames :
                           t[f] \in {pubImages.files[f],
                                     Rsync(outImages.files, pubImages.files)[f]}
                      /\ pubImages' = Dir(t)
                 /\ ATerminate(st)
    /\ UNCHANGED <<arun, hasScript, dirs, outImages, aerr, pubBefore, snap>>

(* ---------------------------------------------------------------------- *)
(* The callback capture listener (the node server on port 58503)          *)
(* ---------------------------------------------------------------------- *)
Reqs == 1..MaxReqs
Methods == {"GET", "POST"}
Urls == {"/", "/callback?id=1"}
HeaderMaps == {"host: 127.0.0.1:58503"}
\* the bytes a data chunk can carry: an ASCII letter, or 0xFF, which is not UTF-8
ChunkBytes == {"a", "0xFF"}

VARIABLES
    lpc,       \* the process: "init", "listening" or "dead"
    clock,     \* the time in milliseconds, as new Date() reads it
    rstate,    \* per request: "none", "open", "ended" (handled) or "failed" (write threw)
    rmeta,     \* per request: method, url and headers
    chunks,    \* the handler's chunks arrays
    resp,      \* per request: the status of the response sent, 0 for none
    files,     \* the record files of bear-callback-debug: name and content
    console,   \* the files named by the "Saved callback payload" lines
    sent,      \* history, per request: the chunks of its body as they arrived
    overlap,   \* history, per request: it had chunks buffered while another open
               \* request had chunks buffered too
    evs,       \* history, per request: what happened to it, in order
    wrote      \* history, per request: the payload its handler wrote

lvars == <<lpc, clock, rstate, rmeta, chunks, resp, files, console, sent, overlap, evs,
           wrote>>

NoMeta == [method |-> "", url |-> "", headers |-> ""]
NoRecord == [method |-> "", url |-> "", headers |-> "", body |-> <<"none">>]

LInit ==
    /\ lpc = "init"
    /\ clock = 0
    /\ rstate = [r \in Reqs |-> "none"]
    /\ rmeta = [r \in Reqs |-> NoMeta]
    /\ chunks = [r \in Reqs |-> <<>>]
    /\ resp = [r \in Reqs |-> 0]
    /\ files = {}
    /\ console = <<>>
    /\ sent = [r \in Reqs |-> <<>>]
    /\ overlap = [r \in Reqs |-> FALSE]
    /\ evs = [r \in Reqs |-> <<>>]
    /\ wrote = [r \in Reqs |-> NoRecord]

\* lines 63-66 and 96-99 of the server: mkdirSync(debugDir) and server.listen(PORT);
\* either can throw, and the process then ends before serving anything
Listen ==
    /\ lpc = "init"
    /\ lpc' \in {"listening", "dead"}
    /\ UNCHANGED <<clock, rstate, rmeta, chunks, resp, files, console, sent, overlap,
                   evs, wrote>>

\* time passes to the next millisecond (the clock is read for file names
\* only, so a millisecond in which no file was named is not told apart)
Tick ==
    /\ lpc = "listening"
    /\ \E k \in DOMAIN console : console[k][1] = clock
    /\ clock' = clock + 1
    /\ UNCHANGED <<lpc, rstate, rmeta, chunks, resp, files, console, sent, overlap,
                   evs, wrote>>

\* a variant of ChunkArray with `const chunks = []` moved out of the handler:
\* one array for all requests
ChunkArrayShared(r) == 1

\* line 72: `const chunks = []` is inside the request handler, so every
\* request has an array of its own
ChunkArray(r) == r

\* lines 70-75 of the handler: a request arrives, its closure gets an empty
\* chunks array and the two listeners (requests are numbered as they arrive)
Request(r) ==
    /\ lpc = "listening"
    /\ rstate[r] = "none"
    /\ \A q \in Reqs : q < r => rstate[q] # "none"
    /\ \E m \in Methods, u \in Urls, h \in HeaderMaps :
         rmeta' = [rmeta EXCEPT ![r] = [method |-> m, url |-> u, headers |-> h]]
    /\ rstate' = [rstate EXCEPT ![r] = "open"]
    /\ chunks' = [chunks EXCEPT ![ChunkArray(r)] = <<>>]
    /\ UNCHANGED <<lpc, clock, resp, files, console, sent, overlap, evs, wrote>>

RECURSIVE TotalChunks(_)
TotalChunks(rs) ==
    IF rs = {} THEN 0
    ELSE LET r == CHOOSE x \in rs : TRUE IN Len(sent[r]) + TotalChunks(rs \ {r})

\* the other requests that are open with chunks buffered
Buffering(r) == {q \in Reqs \ {r} : rstate[q] = "open" /\ sent[q] # <<>>}

\* line 74: req.on('data', (c) => chunks.push(c))
OnData(r) ==
    /\ lpc = "listening"
    /\ rstate[r] = "open"
    /\ TotalChunks(Reqs) < MaxChunks
    /\ \E c \in ChunkBytes :
         /\ chunks' = [chunks EXCEPT ![ChunkArray(r)] = Append(@, c)]
         /\ sent' = [sent EXCEPT ![r] = Append(@, c)]
    /\ overlap' = [q \in Reqs |->
                     overlap[q] \/ (Buffering(r) # {} /\ q \in Buffering(r) \cup {r})]
    /\ evs' = [evs EXCEPT ![r] = Append(@, "data")]
    /\ UNCHANGED <<lpc, clock, rstate, rmeta, resp, files, console, wrote>>

\* Buffer.concat(chunks).toString('utf8'): a byte that is not UTF-8 decodes to U+FFFD
Utf8(bs) == [k \in DOMAIN bs |-> IF bs[k] = "0xFF" THEN "U+FFFD" ELSE bs[k]]

\* lines 78-79: new Date().toISOString() has the milliseconds as its last
\* field, and the name is the timestamp and the method
RecordFile(t, method) == <<t, method>>

\* lines 81-86: JSON.stringify of method, url, headers and body
Payload(r) ==
    [method |-> rmeta[r].method, url |-> rmeta[r].url, headers |-> rmeta[r].headers,
     body |-> Utf8(chunks[ChunkArray(r)])]

\* writeFileSync(file, payload): creates the file or replaces its content
WriteFile(fs, file, payload) ==
    {e \in fs : e.file # file} \cup {[file |-> file, payload |-> payload]}

\* a variant of EndSteps that answers before it writes the record
EndStepsRespondFirst == <<"end", "respond", "write">>

\* the 'end' listener in the order of its statements: the body has ended
\* (lines 75-76), writeFileSync (line 88), res.writeHead and res.end (lines 91-92)
EndSteps == <<"end", "write", "respond">>

\* the steps the listener gets through: all of them, or, when writeFileSync
\* throws, the ones before the write
StepsDone(ok) ==
    IF ok THEN EndSteps
    ELSE LET w == CHOOSE k \in DOMAIN EndSteps : EndSteps[k] = "write"
         IN  Append(SubSeq(EndSteps, 1, w - 1), "throw")

\* lines 75-93: req.on('end'). writeFileSync either writes or throws; nothing
\* catches the exception, so it ends the process before the response is sent.
OnEnd(r) ==
    /\ lpc = "listening"
    /\ rstate[r] = "open"
    /\ \E ok \in BOOLEAN :
         LET file == RecordFile(clock, rmeta[r].method)
             done == StepsDone(ok)
         IN  /\ evs' = [evs EXCEPT ![r] = @ \o done]
             /\ resp' = [resp EXCEPT ![r] =
                           IF \E k \in DOMAIN done : done[k] = "respond" THEN 200 ELSE 0]
             /\ IF ok
                THEN /\ files' = WriteFile(files, file, Payload(r))
                     /\ wrote' = [wrote EXCEPT ![r] = Payload(r)]
                     /\ console' = Append(console, file)
                     /\ rstate' = [rstate EXCEPT ![r] = "ended"]
                     /\ UNCHANGED lpc
                ELSE /\ rstate' = [rstate EXCEPT ![r] = "failed"]
                     /\ lpc' = "dead"
                     /\ UNCHANGED <<files, console, wrote>>
    /\ UNCHANGED <<clock, rmeta, chunks, sent, overlap>>

vars == <<ovars, avars, lvars>>

\* the adapter, not running
AIdle ==
    /\ apc = "idle"
    /\ aexit = 0
    /\ arun = 0
    /\ hasScript = TRUE
    /\ dirs = OutDirs
    /\ outImages = NoDir
    /\ pubImages = NoDir
    /\ acalls = <<>>
    /\ aerr = <<>>
    /\ pubBefore = NoDir
    /\ snap = NoSnap

\* the orchestrator, not running
OIdle ==
    /\ pc = "idle"
    /\ exit = 0
    /\ run = 0
    /\ bear = EmptyTree /\ content = EmptyTree
    /\ W = EmptyTree /\ I = EmptyTree /\ H = EmptyTree
    /\ nCommits = 0
    /\ lastMsg = <<>>
    /\ nPushed = 0
    /\ COMMIT_MSG = <<>>
    /\ calls = <<>>
    /\ log = <<>>
    /\ startCommits = 0
    /\ edited = FALSE
    /\ changed = FALSE
    /\ prev = NoPrev

Init == OInit /\ AIdle /\ LInit

Next ==
    \/ (EditNotes /\ UNCHANGED <<avars, lvars>>)
    \/ (Start /\ UNCHANGED <<avars, lvars>>)
    \/ (SyncStage /\ UNCHANGED <<avars, lvars>>)
    \/ (BuildStage /\ UNCHANGED <<avars, lvars>>)
    \/ (DiffStage /\ UNCHANGED <<avars, lvars>>)
    \/ (AddStage /\ UNCHANGED <<avars, lvars>>)
    \/ (CommitStage /\ UNCHANGED <<avars, lvars>>)
    \/ (PushStage /\ UNCHANGED <<avars, lvars>>)

Spec == Init /\ [][Next]_vars

\* the commands of a run: each one, once invoked, is waited for (bash runs
\* them in the foreground, lines 11, 19, 29, 39, 40, 47)
Stages == SyncStage \/ BuildStage \/ DiffStage \/ AddStage \/ CommitStage \/ PushStage

\* the orchestrator when every external process it invokes terminates
FairSpec == Spec /\ WF_vars(Stages /\ UNCHANGED <<avars, lvars>>)

ANext ==
    \/ (AStart /\ UNCHANGED <<ovars, lvars>>)
    \/ (AMkdirs /\ UNCHANGED <<ovars, lvars>>)
    \/ (ACheck /\ UNCHANGED <<ovars, lvars>>)
    \/ (AExport /\ UNCHANGED <<ovars, lvars>>)
    \/ (ARelayTest /\ UNCHANGED <<ovars, lvars>>)
    \/ (AMkImg /\ UNCHANGED <<ovars, lvars>>)
    \/ (ARsync /\ UNCHANGED <<ovars, lvars>>)

AdapterInit == AInit /\ OIdle /\ LInit

AdapterSpec == AdapterInit /\ [][ANext]_vars

LNext ==
    \/ (Listen /\ UNCHANGED <<ovars, avars>>)
    \/ (Tick /\ UNCHANGED <<ovars, avars>>)
    \/ \E r \in Reqs :
         \/ (Request(r) /\ UNCHANGED <<ovars, avars>>)
         \/ (OnData(r) /\ UNCHANGED <<ovars, avars>>)
         \/ (OnEnd(r) /\ UNCHANGED <<ovars, avars>>)

ListenerInit == LInit /\ OIdle /\ AIdle

ListenerSpec == ListenerInit /\ [][LNext]_vars

(* ---------------------------------------------------------------------- *)
(* Properties of the orchestrator                                         *)
(* ---------------------------------------------------------------------- *)
Ops(cs) == {cs[k].op : k \in DOMAIN cs}
Count(cs, op) == Cardinality({k \in DOMAIN cs : cs[k].op = op})
Finished == pc = "exited"
LastCall == calls[Len(calls)]

\* C1: a run whose diff check reports no changes under docs has ended with exit
\* status 0 and has invoked neither git add, git commit nor git push, and it
\* left the commits and the remote as they were.
C1_NoChangeIsNoOp ==
    (\E k \in DOMAIN calls : calls[k] = Call("diff", 0))
        => /\ Finished
           /\ exit = 0
           /\ Ops(calls) \cap {"add", "commit", "push"} = {}
           /\ nCommits = startCommits
           /\ LastCall = Call("diff", 0)

C1_Witness ==
    /\ Finished
    /\ calls = <<Call("sync", 0), Call("build", 0), Call("diff", 0)>>
    /\ W = I
    /\ exit = 0

\* C2: a run whose export fails has ended with exit status 1 and has invoked
\* nothing after the export: no build, no commit, no push.
C2_SyncFailureStops ==
    (Len(calls) >= 1 /\ calls[1].op = "sync" /\ calls[1].st # 0)
        => /\ Finished
           /\ exit = 1
           /\ Len(calls) = 1
           /\ Ops(calls) \cap {"build", "add", "commit", "push"} = {}
           /\ nCommits = startCommits

C2_Witness ==
    /\ Finished
    /\ calls = <<Call("sync", 128)>>
    /\ exit = 1
    /\ log[Len(log)] = Err("sync-bear FAILED")

\* C3: a run whose export succeeds and whose build then fails has ended with
\* exit status 1 and has invoked neither the commit nor the push.
C3_BuildFailureStops ==
    (Len(calls) >= 2 /\ calls[1] = Call("sync", 0)
        /\ calls[2].op = "build" /\ calls[2].st # 0)
        => /\ Finished
           /\ exit = 1
           /\ Len(calls) = 2
           /\ Ops(calls) \cap {"add", "commit", "push"} = {}
           /\ nCommits = startCommits

C3_Witness ==
    /\ Finished
    /\ calls = <<Call("sync", 0), Call("build", 1)>>
    /\ exit = 1

\* C4: a finished run in which sync, build, commit and push succeeded has
\* created exactly one commit, whose message is "Auto update notes " followed
\* by the date and time, and has made exactly one push attempt, after the commit.
C4_OneCommitOnePush ==
    (Finished /\ {Call("sync", 0), Call("build", 0), Call("commit", 0), Call("push", 0)}
                    \subseteq {calls[k] : k \in DOMAIN calls})
        => /\ nCommits = startCommits + 1
           /\ Count(calls, "commit") = 1
           /\ lastMsg \in {<<"Auto update notes ", d>> : d \in Dates}
           /\ Count(calls, "push") = 1
           /\ \A j, k \in DOMAIN calls :
                calls[j].op = "commit" /\ calls[k].op = "push" => j < k
           /\ nPushed = nCommits

C4_Witness ==
    /\ Finished
    /\ calls = <<Call("sync", 0), Call("build", 0), Call("diff", 1), Call("add", 0),
                 Call("commit", 0), Call("push", 0)>>
    /\ nCommits = startCommits + 1
    /\ exit = 0

\* C5: when a run that ended with exit status 0 is followed by a run before
\* which the notes were not edited, the second run, once its export and build
\* have succeeded and git could run the diff, has taken the no-op path: the
\* diff reported no changes, the exit status is 0 and no commit was created.
C5_SecondRunIsNoOp ==
    (/\ Finished
     /\ run >= 2
     /\ prev.exit = 0
     /\ ~changed
     /\ Len(calls) >= 3
     /\ calls[1] = Call("sync", 0)
     /\ calls[2] = Call("build", 0)
     /\ calls[3].st # 128)
        => /\ calls = <<Call("sync", 0), Call("build", 0), Call("diff", 0)>>
           /\ exit = 0
           /\ nCommits = startCommits

\* the second run follows a run that committed and pushed
C5_Witness ==
    /\ Finished
    /\ run >= 2
    /\ prev = [exit |-> 0, last |-> Call("push", 0)]
    /\ ~changed
    /\ calls = <<Call("sync", 0), Call("build", 0), Call("diff", 0)>>
    /\ exit = 0
    /\ nCommits = startCommits

\* a stage failed: a command other than the diff check ended non-zero
StageFailed == \E k \in DOMAIN calls : calls[k].op # "diff" /\ calls[k].st # 0

\* C8 (the orchestrator's part): a finished run has exit status 0 exactly when
\* it ended by the no-op path or after a successful push, and exit status 1
\* whenever sync, build, staging, commit or push failed.
C8_ExitCodes ==
    (Finished /\ run >= 1)
        => /\ exit = 0 <=> LastCall \in {Call("diff", 0), Call("push", 0)}
           /\ StageFailed => exit = 1

\* C9: a run ends by the no-op path only when docs/ in the working tree has no
\* difference from what the repository tracks for docs/.
C9_NoOpOnlyWithoutDifference ==
    (Finished /\ run >= 1 /\ LastCall = Call("diff", 0)) => W = I

\* the commands of one run in the order of the script (lines 11, 19, 29, 39, 40, 47)
StageOrder == <<"sync", "build", "diff", "add", "commit", "push">>

\* C12: the commands a run has invoked so far are, in order and each once, the
\* first ones of sync, build, diff, add, commit, push; every command but the
\* last invoked one of sync, build, add and commit ended with status 0 and the
\* diff before an add reported a difference; the command the run invokes next
\* is the one that follows the last completed one.
C12_StagesInOrder ==
    /\ Len(calls) <= Len(StageOrder)
    /\ \A k \in DOMAIN calls :
         /\ calls[k].op = StageOrder[k]
         /\ k < Len(calls)
              => IF calls[k].op = "diff" THEN calls[k].st # 0 ELSE calls[k].st = 0
    /\ pc \notin {"idle", "exited"}
         => /\ Len(calls) < Len(StageOrder)
            /\ pc = StageOrder[Len(calls) + 1]
            /\ Len(calls) >= 1
                 => IF LastCall.op = "diff" THEN LastCall.st # 0 ELSE LastCall.st = 0

\* a run that went through all six commands and failed in the last one
C12_Witness ==
    /\ Finished
    /\ calls = <<Call("sync", 0), Call("build", 0), Call("diff", 1), Call("add", 0),
                 Call("commit", 0), Call("push", 1)>>
    /\ exit = 1

\* C13: a finished run in which git add docs or git commit ended non-zero has
\* "git commit failed" on stderr as its last log line, a non-zero exit status
\* and no push.
C13_CommitStageFailureLogged ==
    (Finished /\ \E k \in DOMAIN calls :
                    calls[k].op \in {"add", "commit"} /\ calls[k].st # 0)
        => /\ Len(log) >= 1
           /\ log[Len(log)] = Err("git commit failed")
           /\ exit # 0
           /\ "push" \notin Ops(calls)

\* C19: a run invokes git push only after its own git commit ended with status
\* 0 and made one commit; and when a run that committed and then failed in the
\* push is followed by a run before which the notes were not edited, that run,
\* once its export and build have succeeded and git could run the diff, has
\* taken the no-op path with exit status 0 and without a push, and the commit
\* of the earlier run is still unpushed.
C19_PushOnlyOwnCommit ==
    /\ ("push" \in Ops(calls) \/ pc = "push")
          => /\ \E k \in DOMAIN calls : calls[k] = Call("commit", 0)
             /\ nCommits = startCommits + 1
    /\ (/\ Finished
        /\ run >= 2
        /\ prev.last.op = "push"
        /\ prev.last.st # 0
        /\ ~changed
        /\ Len(calls) >= 3
        /\ calls[1] = Call("sync", 0)
        /\ calls[2] = Call("build", 0)
        /\ calls[3].st # 128)
          => /\ calls = <<Call("sync", 0), Call("build", 0), Call("diff", 0)>>
             /\ exit = 0
             /\ nCommits = startCommits
             /\ nPushed < nCommits

C19_Witness ==
    /\ Finished
    /\ run >= 2
    /\ prev = [exit |-> 1, last |-> Call("push", 1)]
    /\ ~changed
    /\ calls = <<Call("sync", 0), Call("build", 0), Call("diff", 0)>>
    /\ exit = 0
    /\ nPushed < nCommits

\* the terminal states of a run
NO_CHANGE_END == Finished /\ exit = 0 /\ LastCall = Call("diff", 0)
END == Finished /\ exit = 0 /\ LastCall = Call("push", 0)
FAILED == Finished /\ exit # 0

\* C18: when every external process terminates, every run that has started
\* eventually finishes, and a finished run is in exactly one of the terminal
\* states NO_CHANGE_END, END and FAILED.
C18_EveryRunTerminates ==
    /\ (pc \notin {"idle", "exited"}) ~> Finished
    /\ [](Finished /\ run >= 1
            => Cardinality({t \in {"NO_CHANGE_END", "END", "FAILED"} :
                              \/ t = "NO_CHANGE_END" /\ NO_CHANGE_END
                              \/ t = "END" /\ END
                              \/ t = "FAILED" /\ FAILED}) = 1)

\* the last run has finished, and each terminal state has been seen: the run
\* before it failed in the push, this one ended by the no-op path
C18_Witness ==
    /\ run = MaxRuns
    /\ NO_CHANGE_END
    /\ prev = [exit |-> 1, last |-> Call("push", 1)]

(* ---------------------------------------------------------------------- *)
(* Properties of the exporter adapter and the asset relay                 *)
(* ---------------------------------------------------------------------- *)
AFinished == apc = "exited" /\ arun >= 1
ExportSucceeded == \E k \in DOMAIN acalls : acalls[k] = Call("export", 0)

\* C10: once an invocation whose export succeeded has finished: if OUT_DIR has
\* a BearImages folder and the relay ran to its end (exit status 0), every file
\* of the folder is in PUBLIC_DIR/BearImages with the same bytes; if OUT_DIR has
\* no BearImages folder, neither mkdir nor rsync ran after the export, the
\* public directories are as the export left them, and the exit status is 0.
C10_AssetRelay ==
    (AFinished /\ ExportSucceeded)
        => /\ (outImages.exists /\ aexit = 0)
                => /\ pubImages.exists
                   /\ \A f \in ImgNames :
                        outImages.files[f] # 0 => pubImages.files[f] = outImages.files[f]
           /\ ~outImages.exists
                => /\ aexit = 0
                   /\ acalls[Len(acalls)] = Call("export", 0)
                   /\ pubImages = snap.pub
                   /\ pubImages = pubBefore
                   /\ dirs = snap.dirs

\* the relay has overwritten a.png, which the public folder had with other
\* bytes, and has kept its own b.png
C10_Witness ==
    /\ AFinished
    /\ aexit = 0
    /\ acalls[Len(acalls)] = Call("rsync", 0)
    /\ pubBefore.exists
    /\ pubBefore.files["a.png"] = 1
    /\ outImages = Dir([f \in ImgNames |-> IF f = "a.png" THEN 2 ELSE 0])
    /\ pubImages.files["a.png"] = 2
    /\ pubImages.files["b.png"] = pubBefore.files["b.png"]

\* C10, the other case: an invocation without an image subfolder has finished
C10_WitnessSkipped ==
    /\ AFinished
    /\ ExportSucceeded
    /\ ~outImages.exists
    /\ pubImages.exists
    /\ aexit = 0

\* the mkdir of line 10 succeeded, so the script came to the check of line 12
CheckReached == Len(acalls) >= 1 /\ acalls[1] = Call("mkdir", 0)

\* C11: when bear_export_sync.py is not at EXPORT_SCRIPT, the adapter never
\* invokes the export routine nor the relay; an invocation that has finished
\* has a non-zero exit status, and when it came to the check it reported the
\* error once and exited with status 1 right there.
C11_MissingExporterIsFatal ==
    ~hasScript
        => /\ Ops(acalls) \cap {"export", "rsync"} = {}
           /\ apc \notin {"export", "relay", "mkimg", "rsync"}
           /\ AFinished => aexit # 0
           /\ (AFinished /\ CheckReached)
                => /\ aexit = 1
                   /\ aerr = <<"bear_export_sync.py not found">>
                   /\ acalls = <<Call("mkdir", 0)>>
                   /\ outImages = NoDir

C11_Witness ==
    /\ ~hasScript
    /\ AFinished
    /\ CheckReached
    /\ aexit = 1
    /\ aerr = <<"bear_export_sync.py not found">>

\* C16: the relay is additive: the public image directory, once there, stays,
\* and a file it had when the invocation started it has at every later point
\* of the invocation, whatever the content image subfolder holds.
C16_RelayIsAdditive ==
    arun >= 1
        => /\ pubBefore.exists => pubImages.exists
           /\ \A f \in ImgNames : pubBefore.files[f] # 0 => pubImages.files[f] # 0

\* the relay has run while the public folder had b.png and the content
\* subfolder had only a.png
C16_Witness ==
    /\ AFinished
    /\ acalls[Len(acalls)] = Call("rsync", 0)
    /\ pubBefore.files["b.png"] # 0
    /\ outImages.exists
    /\ outImages.files["b.png"] = 0
    /\ outImages.files["a.png"] # 0
    /\ pubImages.files["b.png"] = pubBefore.files["b.png"]
    /\ pubImages.files["a.png"] = outImages.files["a.png"]

\* C17: in one invocation the export routine is invoked at most once; mkdir of
\* the public image folder and rsync are invoked only after the export has
\* ended with status 0; after a failed export the invocation has ended with a
\* non-zero status, the export was its last command and the public image
\* folder is as it was.
C17_ExportOnceThenRelay ==
    /\ Count(acalls, "export") <= 1
    /\ \A k \in DOMAIN acalls :
         (acalls[k].op = "rsync" \/ (acalls[k].op = "mkdir" /\ k > 1))
            => \E j \in 1..(k - 1) : acalls[j] = Call("export", 0)
    /\ apc \in {"relay", "mkimg", "rsync"} => ExportSucceeded
    /\ \A k \in DOMAIN acalls :
         (acalls[k].op = "export" /\ acalls[k].st # 0)
            => /\ apc = "exited"
               /\ aexit = acalls[k].st
               /\ k = Len(acalls)
               /\ pubImages = pubBefore

C17_Witness ==
    /\ AFinished
    /\ acalls = <<Call("mkdir", 0), Call("export", 1)>>
    /\ outImages.exists
    /\ aexit = 1

(* ---------------------------------------------------------------------- *)
(* Properties of the capture listener                                     *)
(* ---------------------------------------------------------------------- *)
\* the requests whose 'end' handler has run to its end
Handled == {r \in Reqs : rstate[r] = "ended"}

\* C6: the N requests handled so far have left N record files, none
\* overwritten by another, and each has been answered with status 200.
C6_OneRecordPerRequest ==
    /\ Cardinality(files) = Cardinality(Handled)
    /\ \A r \in Handled : resp[r] = 200

\* C7: a request whose record could not be written still got its 200
\* response, and the listener is still serving.
C7_WriteFailureIsNotFatal ==
    \A r \in Reqs : rstate[r] = "failed" => resp[r] = 200 /\ lpc = "listening"

\* the places in the events of request r where `what` happened
At(r, what) == {k \in DOMAIN evs[r] : evs[r][k] = what}

\* C14: for every request, in this order: its chunks arrive, its body ends,
\* its record is written, its response is sent. No chunk arrives once the
\* body has ended, the write comes after the end and the response after the
\* write, each at most once; a request has a record only when its write is
\* among its events and a response only when its respond is.
C14_BodyThenRecordThenResponse ==
    \A r \in Reqs :
        LET data == At(r, "data")
            end == At(r, "end")
            write == At(r, "write")
            respond == At(r, "respond")
        IN  /\ data = 1..Len(sent[r])
            /\ Cardinality(end) <= 1
            /\ Cardinality(write) <= 1
            /\ Cardinality(respond) <= 1
            /\ \A k \in end : data = 1..(k - 1)
            /\ \A k \in write : \E j \in end : j < k
            /\ \A k \in respond : \E j \in write : j < k
            /\ wrote[r] # NoRecord <=> write # {}
            /\ resp[r] # 0 <=> respond # {}

\* a request with a body in two chunks has been received, recorded and answered
C14_Witness ==
    \E r \in Reqs :
        /\ evs[r] = <<"data", "data", "end", "write", "respond">>
        /\ resp[r] = 200
        /\ \E e \in files : e.payload = wrote[r]

\* the record of request r as the claim has it: the body is the chunks as sent
RawRecord(r) ==
    [method |-> rmeta[r].method, url |-> rmeta[r].url, headers |-> rmeta[r].headers,
     body |-> sent[r]]

\* the record of request r with the body decoded as UTF-8
DecodedRecord(r) ==
    [method |-> rmeta[r].method, url |-> rmeta[r].url, headers |-> rmeta[r].headers,
     body |-> Utf8(sent[r])]

====
